---- MODULE Spec2Model ----
(***************************************************************************)
(* Model of wgengine/router/router_windows.go: the winRouter lifecycle     *)
(* (Up / Set / Close), its killswitch flag, and the firewallTweaker with   *)
(* its background doAsyncSet goroutine that drives netsh.                  *)
(*                                                                         *)
(* firewallTweaker.set runs entirely under ft.mu (Lock ... defer Unlock),  *)
(* so it is one atomic step that is enabled only while the mutex is free.  *)
(* The goroutine is modelled statement by statement: every acquisition of  *)
(* ft.mu and every netsh command is a step of its own.                     *)
(*                                                                         *)
(* Views of the program that are checked: Spec is the reconciler with its  *)
(* goroutine under concurrent Up / Set / Close calls whose router side is  *)
(* uneventful (no default route, collaborators succeed).  RouterSpec is    *)
(* the winRouter under every configuration and collaborator outcome; the   *)
(* goroutine is left out of it because no step of doAsyncSet reads or      *)
(* writes a winRouter field, and ft.set only waits for a mutex that the    *)
(* goroutine always releases.                                              *)
(*                                                                         *)
(* health/health.go, the registry the router's error state is reported     *)
(* to, is a third view, HealthSpec.  Each of its functions holds the       *)
(* package mutex from its first statement to its return, so each is one    *)
(* atomic step.                                                            *)
(***************************************************************************)
EXTENDS Naturals, Sequences, FiniteSets

\* ---------------------------------------------------------------- bounds
MaxLen == 2       \* longest allow-list handed to firewallTweaker.set
MaxLoops == 2     \* goroutine slots available to "go ft.doAsyncSet()"
MaxRoutes == 1    \* longest cfg.Routes
MaxWatchers == 2  \* watch handles that can be registered at one time

\* The CIDR strings produced by la.String(): one IPv4 and one IPv6 prefix.
Cidrs == {"100.64.0.1/32", "fd7a::1/128"}

\* Prefix lengths of the routes of a Config; 0 is a default route.
RouteBits == {0, 24}

SeqsUpTo(S, n) == UNION {[1..k -> S] : k \in 0..n}

\* cfg.LocalAddrs: the distinct prefixes assigned to the tunnel interface,
\* in any order.
Lists == {s \in SeqsUpTo(Cidrs, MaxLen) :
            \A j, k \in 1..Len(s) : j # k => s[j] # s[k]}
RouteLists == SeqsUpTo(RouteBits, MaxRoutes)

LoopIds == 1..MaxLoops

\* Keys of the health registry; "router" is the one SetRouterHealth uses.
Keys == {"router", "dns"}

\* Values of the error interface: nil and two distinct non-nil errors.
Errs == {"nil", "e1", "e2"}

\* *watchHandle values
Handles == 1..MaxWatchers

Range(s) == {s[k] : k \in 1..Len(s)}

VARIABLES
  \* firewallTweaker fields
  mu,            \* holder of ft.mu: 0 when free, else the goroutine holding it
  didProcRule, running, known, want, lastVal,
  \* doAsyncSet goroutines: position and locals, per goroutine slot
  pc, val, needClear, needProcRule, err, idx,
  \* Windows firewall as netsh sees it
  inRules,       \* localip values of the installed Tailscale-In rules
  procRule,      \* a Tailscale-Process rule is installed
  \* winRouter fields
  wgFirewallEnabled, routeChangeCallback,
  \* what the most recent Up / Set / Close did
  last,
  prevDefault,   \* hasdefault of the latest Set that reached the killswitch step
  \* package health
  m,             \* error key => err; "absent" when the key is not in the map
  watchers,      \* the handles registered, each with its callback
  hlast          \* what the most recent call into package health did

ftVars == <<mu, didProcRule, running, known, want, lastVal>>
loopVars == <<pc, val, needClear, needProcRule, err, idx>>
osVars == <<inRules, procRule>>
routerVars == <<wgFirewallEnabled, routeChangeCallback, last, prevDefault>>
healthVars == <<m, watchers, hlast>>
callerVars == <<routerVars, healthVars>>
vars == <<ftVars, loopVars, osVars, routerVars, healthVars>>

\* ------------------------------------------------------------- helpers

RECURSIVE strsEqualFrom(_, _, _)
strsEqualFrom(a, b, k) ==
  IF k > Len(a) THEN TRUE
  ELSE IF a[k] # b[k] THEN FALSE
  ELSE strsEqualFrom(a, b, k + 1)

strsEqual(a, b) ==
  IF Len(a) # Len(b) THEN FALSE ELSE strsEqualFrom(a, b, 1)

RECURSIVE hasdefaultFrom(_, _)
hasdefaultFrom(routes, k) ==
  IF k > Len(routes) THEN FALSE
  ELSE IF routes[k] = 0 THEN TRUE
  ELSE hasdefaultFrom(routes, k + 1)

hasdefault(routes) == hasdefaultFrom(routes, 1)

\* The slot a new goroutine gets: the lowest one not in use.
FreeLoops == {l \in LoopIds : pc[l] = "none"}
NewLoop == CHOOSE l \in FreeLoops : \A f \in FreeLoops : l <= f

\* Where the goroutine goes after the Tailscale-Process block: the range
\* loop over val, or straight to BackOff when val is empty or exhausted.
AddPc(v, k) == IF k <= Len(v) THEN "add" ELSE "backoff"
ProcPc(np, v) == IF np THEN "procDel" ELSE AddPc(v, 1)
ClearPc(nc, np, v) == IF nc THEN "clear" ELSE ProcPc(np, v)

\* ----------------------------------------------------- firewallTweaker

\* set that starts a goroutine without looking at ft.running
setNoRunningCheck(cidrs) ==
  /\ mu = 0
  /\ FreeLoops # {}
  /\ want' = cidrs
  /\ running' = TRUE
  /\ pc' = [pc EXCEPT ![NewLoop] = "lock"]
  /\ UNCHANGED <<mu, didProcRule, known, lastVal>>
  /\ UNCHANGED <<val, needClear, needProcRule, err, idx>>
  /\ UNCHANGED osVars

\* ft.set(cidrs)
set(cidrs) ==
  /\ mu = 0
  /\ want' = cidrs
  /\ IF running
       THEN UNCHANGED <<running, pc>>
       ELSE /\ FreeLoops # {}
            /\ running' = TRUE
            /\ pc' = [pc EXCEPT ![NewLoop] = "lock"]
  /\ UNCHANGED <<mu, didProcRule, known, lastVal>>
  /\ UNCHANGED <<val, needClear, needProcRule, err, idx>>
  /\ UNCHANGED osVars

\* clear that leaves the desired list as it is
clearKeepsWant == set(want)

\* ft.clear()
clear == set(<<>>)

\* ------------------------------------------------- doAsyncSet goroutine

\* ft.mu.Lock() before the for loop
LoopLock(l) ==
  /\ pc[l] = "lock"
  /\ mu = 0
  /\ mu' = l
  /\ pc' = [pc EXCEPT ![l] = "check"]
  /\ UNCHANGED <<didProcRule, running, known, want, lastVal>>
  /\ UNCHANGED <<val, needClear, needProcRule, err, idx>>
  /\ UNCHANGED <<osVars, callerVars>>

\* An exit test that forgets ft.known
ConvergedIgnoringKnown(v) == strsEqual(lastVal, v)

\* The sole exit test: the firewall is in a known state that equals val.
Converged(v) == known /\ strsEqual(lastVal, v)

\* needClear that looks at ft.known only
NeedClearOnlyUnknown(v) == ~known

\* needClear := !ft.known || len(ft.lastVal) > 0 || len(val) == 0
NeedClear(v) == ~known \/ Len(lastVal) > 0 \/ Len(v) = 0

\* needProcRule that forgets ft.didProcRule
NeedProcRuleAlways == TRUE

\* needProcRule := !ft.didProcRule
NeedProcRule == ~didProcRule

\* Top of the loop body, under the lock, when val := ft.want is what the
\* firewall already holds: clear running, unlock, return.
LoopExit(l) ==
  /\ pc[l] = "check"
  /\ mu = l
  /\ Converged(want)
  /\ running' = FALSE
  /\ mu' = 0
  /\ pc' = [pc EXCEPT ![l] = "none"]
  /\ val' = [val EXCEPT ![l] = <<>>]
  /\ needClear' = [needClear EXCEPT ![l] = FALSE]
  /\ needProcRule' = [needProcRule EXCEPT ![l] = FALSE]
  /\ err' = [err EXCEPT ![l] = FALSE]
  /\ idx' = [idx EXCEPT ![l] = 1]
  /\ UNCHANGED <<didProcRule, known, want, lastVal>>
  /\ UNCHANGED <<osVars, callerVars>>

\* LoopBegin without the ft.mu.Unlock() that precedes the netsh commands
LoopBeginLocked(l) ==
  /\ pc[l] = "check"
  /\ mu = l
  /\ ~Converged(want)
  /\ val' = [val EXCEPT ![l] = want]
  /\ needClear' = [needClear EXCEPT ![l] = NeedClear(want)]
  /\ needProcRule' = [needProcRule EXCEPT ![l] = NeedProcRule]
  /\ pc' = [pc EXCEPT ![l] = ClearPc(NeedClear(want), NeedProcRule, want)]
  /\ err' = [err EXCEPT ![l] = FALSE]
  /\ idx' = [idx EXCEPT ![l] = 1]
  /\ last' = [last EXCEPT !.seen = TRUE]
  /\ UNCHANGED <<mu, didProcRule, running, known, want, lastVal>>
  /\ UNCHANGED <<osVars, wgFirewallEnabled, routeChangeCallback, prevDefault>>
  /\ UNCHANGED healthVars

\* LoopBegin with val declared before the for loop and assigned only
\* while it is still empty
LoopBeginKeepsVal(l) ==
  /\ pc[l] = "check"
  /\ mu = l
  /\ ~Converged(want)
  /\ val' = [val EXCEPT ![l] = IF Len(val[l]) > 0 THEN val[l] ELSE want]
  /\ needClear' = [needClear EXCEPT ![l] = NeedClear(val'[l])]
  /\ needProcRule' = [needProcRule EXCEPT ![l] = NeedProcRule]
  /\ mu' = 0
  /\ pc' = [pc EXCEPT ![l] = ClearPc(NeedClear(val'[l]), NeedProcRule, val'[l])]
  /\ err' = [err EXCEPT ![l] = FALSE]
  /\ idx' = [idx EXCEPT ![l] = 1]
  /\ last' = [last EXCEPT !.seen = TRUE]
  /\ UNCHANGED <<didProcRule, running, known, want, lastVal>>
  /\ UNCHANGED <<osVars, wgFirewallEnabled, routeChangeCallback, prevDefault>>
  /\ UNCHANGED healthVars

\* Top of the loop body otherwise: snapshot val := ft.want, decide needClear
\* and needProcRule, unlock.  err is declared afresh further down.
LoopBegin(l) ==
  /\ pc[l] = "check"
  /\ mu = l
  /\ ~Converged(want)
  /\ val' = [val EXCEPT ![l] = want]
  /\ needClear' = [needClear EXCEPT ![l] = NeedClear(want)]
  /\ needProcRule' = [needProcRule EXCEPT ![l] = NeedProcRule]
  /\ mu' = 0
  /\ pc' = [pc EXCEPT ![l] = ClearPc(NeedClear(want), NeedProcRule, want)]
  /\ err' = [err EXCEPT ![l] = FALSE]
  /\ idx' = [idx EXCEPT ![l] = 1]
  /\ last' = [last EXCEPT !.seen = TRUE]
  /\ UNCHANGED <<didProcRule, running, known, want, lastVal>>
  /\ UNCHANGED <<osVars, wgFirewallEnabled, routeChangeCallback, prevDefault>>
  /\ UNCHANGED healthVars

\* netsh delete rule name=Tailscale-In: removes every matching rule; when
\* nothing matches netsh reports an error, which the code ignores.
ClearDone(l) ==
  /\ pc[l] = "clear"
  /\ inRules' = {}
  /\ pc' = [pc EXCEPT ![l] = ProcPc(needProcRule[l], val[l])]
  /\ UNCHANGED <<val, needClear, needProcRule, err, idx>>
  /\ UNCHANGED <<ftVars, procRule, callerVars>>

\* The same command failing with the rules still in place; the error is
\* ignored all the same.
ClearFail(l) ==
  /\ pc[l] = "clear"
  /\ inRules # {}
  /\ pc' = [pc EXCEPT ![l] = ProcPc(needProcRule[l], val[l])]
  /\ UNCHANGED <<val, needClear, needProcRule, err, idx>>
  /\ UNCHANGED <<ftVars, osVars, callerVars>>

\* Best-effort delete of a prior Tailscale-Process rule, then os.Executable().
ProcDel(l) ==
  /\ pc[l] = "procDel"
  /\ \E delOk \in BOOLEAN :
       procRule' = IF delOk THEN FALSE ELSE procRule
  /\ \E exeOk \in BOOLEAN :
       pc' = [pc EXCEPT ![l] = IF exeOk THEN "procAdd" ELSE AddPc(val[l], 1)]
  /\ UNCHANGED <<val, needClear, needProcRule, err, idx>>
  /\ UNCHANGED <<ftVars, inRules, callerVars>>

\* netsh add rule name=Tailscale-Process succeeds
ProcAddOk(l) ==
  /\ pc[l] = "procAdd"
  /\ procRule' = TRUE
  /\ pc' = [pc EXCEPT ![l] = "procSet"]
  /\ UNCHANGED <<val, needClear, needProcRule, err, idx>>
  /\ UNCHANGED <<ftVars, inRules, callerVars>>

\* A failing add of the Tailscale-Process rule that is taken for a failure
\* of the iteration: err is set and the adds are skipped
ProcAddFailSetsErr(l) ==
  /\ pc[l] = "procAdd"
  /\ err' = [err EXCEPT ![l] = TRUE]
  /\ pc' = [pc EXCEPT ![l] = "backoff"]
  /\ UNCHANGED <<val, needClear, needProcRule, idx>>
  /\ UNCHANGED <<ftVars, osVars, callerVars>>

\* netsh add rule name=Tailscale-Process fails: logged, nothing else
ProcAddFail(l) ==
  /\ pc[l] = "procAdd"
  /\ pc' = [pc EXCEPT ![l] = AddPc(val[l], 1)]
  /\ UNCHANGED <<val, needClear, needProcRule, err, idx>>
  /\ UNCHANGED <<ftVars, osVars, callerVars>>

\* ft.mu.Lock(); ft.didProcRule = true; ft.mu.Unlock()
ProcSet(l) ==
  /\ pc[l] = "procSet"
  /\ mu = 0
  /\ didProcRule' = TRUE
  /\ pc' = [pc EXCEPT ![l] = AddPc(val[l], 1)]
  /\ UNCHANGED <<mu, running, known, want, lastVal>>
  /\ UNCHANGED <<val, needClear, needProcRule, err, idx>>
  /\ UNCHANGED <<osVars, callerVars>>

\* netsh add rule name=Tailscale-In localip=val[idx] succeeds
AddOk(l) ==
  /\ pc[l] = "add"
  /\ inRules' = inRules \cup {val[l][idx[l]]}
  /\ idx' = [idx EXCEPT ![l] = idx[l] + 1]
  /\ pc' = [pc EXCEPT ![l] = AddPc(val[l], idx[l] + 1)]
  /\ UNCHANGED <<val, needClear, needProcRule, err>>
  /\ UNCHANGED <<ftVars, procRule, callerVars>>

\* A failing add that sets err but does not break out of the range loop
AddFailContinues(l) ==
  /\ pc[l] = "add"
  /\ err' = [err EXCEPT ![l] = TRUE]
  /\ idx' = [idx EXCEPT ![l] = idx[l] + 1]
  /\ pc' = [pc EXCEPT ![l] = AddPc(val[l], idx[l] + 1)]
  /\ UNCHANGED <<val, needClear, needProcRule>>
  /\ UNCHANGED <<ftVars, osVars, callerVars>>

\* The same command failing: err is set and the range loop breaks.
AddFail(l) ==
  /\ pc[l] = "add"
  /\ err' = [err EXCEPT ![l] = TRUE]
  /\ pc' = [pc EXCEPT ![l] = "backoff"]
  /\ UNCHANGED <<val, needClear, needProcRule, idx>>
  /\ UNCHANGED <<ftVars, osVars, callerVars>>

\* bo.BackOff(ctx, err): sleeps (longer after an error), lock not held
BackOff(l) ==
  /\ pc[l] = "backoff"
  /\ pc' = [pc EXCEPT ![l] = "relock"]
  /\ UNCHANGED <<val, needClear, needProcRule, err, idx>>
  /\ UNCHANGED <<ftVars, osVars, callerVars>>

\* LoopCommit that records the state as known whatever err is
LoopCommitKnown(l) ==
  /\ pc[l] = "relock"
  /\ mu = 0
  /\ mu' = l
  /\ lastVal' = val[l]
  /\ known' = TRUE
  /\ pc' = [pc EXCEPT ![l] = "check"]
  /\ UNCHANGED <<didProcRule, running, want>>
  /\ UNCHANGED <<val, needClear, needProcRule, err, idx>>
  /\ UNCHANGED <<osVars, callerVars>>

\* ft.mu.Lock(); ft.lastVal = val; ft.known = (err == nil); back to the top
LoopCommit(l) ==
  /\ pc[l] = "relock"
  /\ mu = 0
  /\ mu' = l
  /\ lastVal' = val[l]
  /\ known' = ~err[l]
  /\ pc' = [pc EXCEPT ![l] = "check"]
  /\ UNCHANGED <<didProcRule, running, want>>
  /\ UNCHANGED <<val, needClear, needProcRule, err, idx>>
  /\ UNCHANGED <<osVars, callerVars>>

\* Every step of the goroutine but a failing delete of the Tailscale-In rules
Steps(l) ==
  \/ LoopLock(l)
  \/ LoopExit(l)
  \/ LoopBegin(l)
  \/ ClearDone(l)
  \/ ProcDel(l)
  \/ ProcAddOk(l)
  \/ ProcAddFail(l)
  \/ ProcSet(l)
  \/ AddOk(l)
  \/ AddFail(l)
  \/ BackOff(l)
  \/ LoopCommit(l)

doAsyncSet(l) ==
  \/ Steps(l)
  \/ ClearFail(l)

\* ------------------------------------------------------------ winRouter

\* What an Up / Set / Close call did: the collaborator calls it made, those
\* that returned an error, what it returned, and the killswitch flag it found.
\* superseded: the call replaced a different desired list, requested by an
\* earlier call, that the goroutine had not applied yet.
\* seen: the goroutine has snapshotted ft.want since the call.
Report(op, ret, calls, failed, cidrs) ==
  [op |-> op, ret |-> ret, calls |-> calls, failed |-> failed,
   wgPrev |-> wgFirewallEnabled,
   superseded |-> /\ last.op # "none"
                  /\ ~strsEqual(want, cidrs)
                  /\ ~(known /\ strsEqual(lastVal, want)),
   seen |-> FALSE]

NoReport == [op |-> "none", ret |-> "nil", calls |-> {}, failed |-> {},
             wgPrev |-> FALSE, superseded |-> FALSE, seen |-> FALSE]

\* localAddrs: the la.String() of each cfg.LocalAddrs entry, appended in order
RECURSIVE localAddrsOf(_, _)
localAddrsOf(addrs, k) ==
  IF k > Len(addrs) THEN <<>>
  ELSE <<addrs[k]>> \o localAddrsOf(addrs, k + 1)

\* Up that subscribes first and returns on failure before ft.clear()
UpSubscribesFirst ==
  \E ok \in BOOLEAN :
    IF ok THEN
      /\ clear
      /\ routeChangeCallback' = "registered"
      /\ last' = Report("Up", "nil", {"ft.set", "monitorDefaultRoutes"},
                        {}, <<>>)
      /\ UNCHANGED <<wgFirewallEnabled, prevDefault, healthVars>>
    ELSE
      /\ mu = 0
      /\ routeChangeCallback' = "nil"
      /\ last' = Report("Up", "err", {"monitorDefaultRoutes"},
                        {"monitorDefaultRoutes"}, want)
      /\ UNCHANGED <<ftVars, loopVars, osVars>>
      /\ UNCHANGED <<wgFirewallEnabled, prevDefault, healthVars>>

\* r.Up(): ft.clear(), then monitorDefaultRoutes, which may fail
Up ==
  /\ clear
  /\ \E ok \in BOOLEAN :
       /\ routeChangeCallback' = IF ok THEN "registered" ELSE "nil"
       /\ last' = Report("Up", IF ok THEN "nil" ELSE "err",
                         {"ft.set", "monitorDefaultRoutes"},
                         IF ok THEN {} ELSE {"monitorDefaultRoutes"}, <<>>)
  /\ UNCHANGED <<wgFirewallEnabled, prevDefault, healthVars>>

\* A killswitch step that follows hasdefault without looking at the flag
KillswitchCallAlways(hd) ==
  IF hd THEN {"EnableFirewall"} ELSE {"DisableFirewall"}

\* The killswitch step of Set: the collaborator call it makes, if any.
KillswitchCall(hd) ==
  IF hd /\ ~wgFirewallEnabled THEN {"EnableFirewall"}
  ELSE IF ~hd /\ wgFirewallEnabled THEN {"DisableFirewall"}
  ELSE {}

\* The killswitch step of Set: the flag it leaves.  The flag is assigned
\* after the call whether or not the call returned an error.
KillswitchFlag(hd, fwOk) ==
  IF hd /\ ~wgFirewallEnabled THEN TRUE
  ELSE IF ~hd /\ wgFirewallEnabled THEN FALSE
  ELSE wgFirewallEnabled

\* Set that logs a dns.Set error and carries on to the killswitch step
SetWithNoAbort(addrs, routes, cfgOk, dnsOk, fwOk) ==
  /\ set(localAddrsOf(addrs, 1))
  /\ UNCHANGED <<routeChangeCallback, healthVars>>
  /\ IF ~cfgOk THEN
       /\ last' = Report("Set", "err", {"ft.set", "configureInterface"},
                         {"configureInterface"}, localAddrsOf(addrs, 1))
       /\ UNCHANGED <<wgFirewallEnabled, prevDefault>>
     ELSE
       /\ wgFirewallEnabled' = KillswitchFlag(hasdefault(routes), fwOk)
       /\ prevDefault' = IF hasdefault(routes) THEN "yes" ELSE "no"
       /\ last' = Report("Set", IF dnsOk THEN "nil" ELSE "err",
                         {"ft.set", "configureInterface", "dns.Set"}
                           \cup KillswitchCall(hasdefault(routes)),
                         (IF dnsOk THEN {} ELSE {"dns.Set"}) \cup
                         (IF fwOk THEN {}
                          ELSE KillswitchCall(hasdefault(routes))),
                         localAddrsOf(addrs, 1))

\* r.Set(cfg) for a cfg with the given LocalAddrs and Routes, and the given
\* outcomes of configureInterface, dns.Set and the killswitch collaborator.
\* A nil cfg is the shutdownConfig: both lists empty.
SetWith(addrs, routes, cfgOk, dnsOk, fwOk) ==
  /\ set(localAddrsOf(addrs, 1))
  /\ UNCHANGED <<routeChangeCallback, healthVars>>
  /\ IF ~cfgOk THEN
       /\ last' = Report("Set", "err", {"ft.set", "configureInterface"},
                         {"configureInterface"}, localAddrsOf(addrs, 1))
       /\ UNCHANGED <<wgFirewallEnabled, prevDefault>>
     ELSE IF ~dnsOk THEN
       /\ last' = Report("Set", "err",
                         {"ft.set", "configureInterface", "dns.Set"},
                         {"dns.Set"}, localAddrsOf(addrs, 1))
       /\ UNCHANGED <<wgFirewallEnabled, prevDefault>>
     ELSE
       /\ wgFirewallEnabled' = KillswitchFlag(hasdefault(routes), fwOk)
       /\ prevDefault' = IF hasdefault(routes) THEN "yes" ELSE "no"
       /\ last' = Report("Set", "nil",
                         {"ft.set", "configureInterface", "dns.Set"}
                           \cup KillswitchCall(hasdefault(routes)),
                         IF fwOk THEN {}
                         ELSE KillswitchCall(hasdefault(routes)),
                         localAddrsOf(addrs, 1))

\* r.Set(cfg), any cfg, any collaborator outcome
Set ==
  \E addrs \in Lists, routes \in RouteLists,
     cfgOk \in BOOLEAN, dnsOk \in BOOLEAN, fwOk \in BOOLEAN :
    SetWith(addrs, routes, cfgOk, dnsOk, fwOk)

\* r.Set(cfg) for a cfg without routes, every collaborator succeeding
SetAddrs ==
  \E addrs \in Lists : SetWith(addrs, <<>>, TRUE, TRUE, TRUE)

\* Close that also takes the killswitch down
CloseDisablesKillswitch ==
  /\ clear
  /\ \E dnsOk \in BOOLEAN :
       IF ~dnsOk THEN
         /\ last' = Report("Close", "err", {"ft.set", "dns.Down"},
                           {"dns.Down"}, <<>>)
         /\ UNCHANGED <<routeChangeCallback, wgFirewallEnabled>>
       ELSE
         /\ last' = Report("Close", "nil",
                           {"ft.set", "dns.Down"} \cup
                             (IF routeChangeCallback # "nil"
                                THEN {"Unregister"} ELSE {}) \cup
                             (IF wgFirewallEnabled
                                THEN {"DisableFirewall"} ELSE {}),
                           {}, <<>>)
         /\ routeChangeCallback' =
              IF routeChangeCallback # "nil" THEN "unregistered" ELSE "nil"
         /\ wgFirewallEnabled' = FALSE
  /\ UNCHANGED <<prevDefault, healthVars>>

\* Close that logs a dns.Down error and carries on to Unregister
CloseNoAbort ==
  /\ clear
  /\ \E dnsOk \in BOOLEAN :
       /\ last' = Report("Close", IF dnsOk THEN "nil" ELSE "err",
                         {"ft.set", "dns.Down"} \cup
                           (IF routeChangeCallback # "nil"
                              THEN {"Unregister"} ELSE {}),
                         IF dnsOk THEN {} ELSE {"dns.Down"}, <<>>)
       /\ routeChangeCallback' =
            IF routeChangeCallback # "nil" THEN "unregistered" ELSE "nil"
  /\ UNCHANGED <<wgFirewallEnabled, prevDefault, healthVars>>

\* r.Close(): ft.clear(), dns.Down (which may fail), then Unregister
Close ==
  /\ clear
  /\ \E dnsOk \in BOOLEAN :
       IF ~dnsOk THEN
         /\ last' = Report("Close", "err", {"ft.set", "dns.Down"},
                           {"dns.Down"}, <<>>)
         /\ UNCHANGED routeChangeCallback
       ELSE
         /\ last' = Report("Close", "nil",
                           {"ft.set", "dns.Down"} \cup
                             (IF routeChangeCallback # "nil"
                                THEN {"Unregister"} ELSE {}),
                           {}, <<>>)
         /\ routeChangeCallback' =
              IF routeChangeCallback # "nil" THEN "unregistered" ELSE "nil"
  /\ UNCHANGED <<wgFirewallEnabled, prevDefault, healthVars>>

\* ------------------------------------------------------ package health

\* What a call into package health did: the key and error it was given,
\* the map entry it found, the callbacks it started with "go cb(key, err)"
\* and, for get, the error it returned.
Call(op, key, e, ran, ret) ==
  [op |-> op, key |-> key, err |-> e, old |-> IF key \in Keys THEN m[key] ELSE "absent",
   ran |-> ran, ret |-> ret]

NoCall == [op |-> "none", key |-> "", err |-> "nil", old |-> "absent",
           ran |-> {}, ret |-> "nil"]

\* for _, cb := range watchers { go cb(key, err) }
RunWatchers(key, e) == {[h |-> h, key |-> key, err |-> e] : h \in watchers}

\* m[key] as Go reads it: the zero value, nil, for a key not in the map
get(key) == IF m[key] = "absent" THEN "nil" ELSE m[key]

\* set without its initial happy path
healthSetNoHappyPath(key, e) ==
  /\ IF m[key] # "absent" /\ ((m[key] = "nil") = (e = "nil")) THEN
       /\ m' = IF e # "nil" THEN [m EXCEPT ![key] = e] ELSE m
       /\ hlast' = Call("set", key, e, {}, "nil")
     ELSE
       /\ m' = [m EXCEPT ![key] = e]
       /\ hlast' = Call("set", key, e, RunWatchers(key, e), "nil")
  /\ UNCHANGED watchers
  /\ UNCHANGED <<ftVars, loopVars, osVars, routerVars>>

\* set that does not note the new error when the status is unchanged
healthSetKeepsOld(key, e) ==
  /\ IF m[key] = "absent" /\ e = "nil" THEN
       /\ m' = [m EXCEPT ![key] = "nil"]
       /\ hlast' = Call("set", key, e, {}, "nil")
     ELSE IF m[key] # "absent" /\ ((m[key] = "nil") = (e = "nil")) THEN
       /\ m' = m
       /\ hlast' = Call("set", key, e, {}, "nil")
     ELSE
       /\ m' = [m EXCEPT ![key] = e]
       /\ hlast' = Call("set", key, e, RunWatchers(key, e), "nil")
  /\ UNCHANGED watchers
  /\ UNCHANGED <<ftVars, loopVars, osVars, routerVars>>

\* health.set(key, err)
healthSet(key, e) ==
  /\ IF m[key] = "absent" /\ e = "nil" THEN
       /\ m' = [m EXCEPT ![key] = "nil"]
       /\ hlast' = Call("set", key, e, {}, "nil")
     ELSE IF m[key] # "absent" /\ ((m[key] = "nil") = (e = "nil")) THEN
       /\ m' = IF e # "nil" THEN [m EXCEPT ![key] = e] ELSE m
       /\ hlast' = Call("set", key, e, {}, "nil")
     ELSE
       /\ m' = [m EXCEPT ![key] = e]
       /\ hlast' = Call("set", key, e, RunWatchers(key, e), "nil")
  /\ UNCHANGED watchers
  /\ UNCHANGED <<ftVars, loopVars, osVars, routerVars>>

\* health.get(key)
healthGet(key) ==
  /\ hlast' = Call("get", key, "nil", {}, get(key))
  /\ UNCHANGED <<m, watchers>>
  /\ UNCHANGED <<ftVars, loopVars, osVars, routerVars>>

\* RegisterWatcher(cb): a new handle is added to watchers
RegisterWatcher ==
  /\ \E h \in Handles \ watchers :
       watchers' = watchers \cup {h}
  /\ hlast' = Call("RegisterWatcher", "", "nil", {}, "nil")
  /\ UNCHANGED m
  /\ UNCHANGED <<ftVars, loopVars, osVars, routerVars>>

\* The func RegisterWatcher returned, for a handle still registered
unregister(h) ==
  /\ h \in watchers
  /\ watchers' = watchers \ {h}
  /\ hlast' = Call("unregister", "", "nil", {}, "nil")
  /\ UNCHANGED m
  /\ UNCHANGED <<ftVars, loopVars, osVars, routerVars>>

\* ------------------------------------------------------- specifications

\* newUserspaceRouter: a fresh firewallTweaker and winRouter.  The rules a
\* previous run left in the Windows firewall are whatever they are.
Init ==
  /\ mu = 0
  /\ didProcRule = FALSE
  /\ running = FALSE
  /\ known = FALSE
  /\ want = <<>>
  /\ lastVal = <<>>
  /\ pc = [l \in LoopIds |-> "none"]
  /\ val = [l \in LoopIds |-> <<>>]
  /\ needClear = [l \in LoopIds |-> FALSE]
  /\ needProcRule = [l \in LoopIds |-> FALSE]
  /\ err = [l \in LoopIds |-> FALSE]
  /\ idx = [l \in LoopIds |-> 1]
  /\ inRules \in SUBSET Cidrs
  /\ procRule \in BOOLEAN
  /\ wgFirewallEnabled = FALSE
  /\ routeChangeCallback = "nil"
  /\ last = NoReport
  /\ prevDefault = "none"
  /\ m = [k \in Keys |-> "absent"]
  /\ watchers = {}
  /\ hlast = NoCall

\* The reconciler, its goroutine and its callers.
Next ==
  \/ Up
  \/ SetAddrs
  \/ Close
  \/ \E l \in LoopIds : doAsyncSet(l)

Spec == Init /\ [][Next]_vars

\* The router calls alone, with every configuration and outcome.
RouterNext ==
  \/ Up
  \/ Set
  \/ Close

RouterSpec == Init /\ [][RouterNext]_vars

\* The reconciler when netsh deletes what it is asked to delete, the calls
\* stop at some point, and from some point on the add commands succeed.  The
\* goroutine, once started, is scheduled until it returns.
LiveNext ==
  \/ Up
  \/ SetAddrs
  \/ Close
  \/ \E l \in LoopIds : Steps(l)

LiveSpec ==
  /\ Init
  /\ [][LiveNext]_vars
  /\ \A l \in LoopIds : WF_vars(Steps(l))
  /\ <>[][~(Up \/ SetAddrs \/ Close)]_vars
  /\ <>[][~(\E l \in LoopIds : AddFail(l))]_vars

\* The health registry under any sequence of calls.
HealthNext ==
  \/ \E key \in Keys, e \in Errs : healthSet(key, e)
  \/ \E key \in Keys : healthGet(key)
  \/ RegisterWatcher
  \/ \E h \in Handles : unregister(h)

HealthSpec == Init /\ [][HealthNext]_vars

\* --------------------------------------------------------------- claims

Active == {l \in LoopIds : pc[l] # "none"}

\* The goroutine is inside runFirewall or bo.BackOff.
Slow(l) == pc[l] \in {"clear", "procDel", "procAdd", "add", "backoff"}

Called == last.op # "none"

\* C1: whatever the interleaving of set calls and goroutine steps, at most
\* one doAsyncSet goroutine is active, and ft.running is true exactly when
\* one is.
SingleLoop ==
  /\ Cardinality(Active) <= 1
  /\ running <=> Active # {}

\* C1 witness: a set call arrived while the goroutine was in the middle of
\* its add commands, and there is still one goroutine.
SingleLoopWitness ==
  /\ running
  /\ \E l \in LoopIds : pc[l] = "add" /\ idx[l] = 2 /\ val[l] # want

\* C2: when netsh deletes what it is told to, the calls cease and the add
\* commands succeed from some point on, then from some point on the
\* goroutine has returned, stays returned, and the installed Tailscale-In
\* rules are those of the last desired list.
Convergence ==
  <>[](Called => /\ ~running
                 /\ Active = {}
                 /\ known
                 /\ lastVal = want
                 /\ inRules = Range(want))

\* C2 witness: after some calls the goroutine has returned with a non-empty
\* desired list installed.
ConvergenceWitness ==
  /\ Called
  /\ ~running
  /\ Len(want) = 2
  /\ inRules = Range(want)

\* C3: when a call replaced a different desired list that had not been
\* applied yet, and no call followed, the goroutine never returns with
\* anything but the later list applied: once it has returned, lastVal and
\* the installed Tailscale-In rules are those of the later list.
CoalescingTerminal ==
  (last.superseded /\ ~running) =>
    /\ known
    /\ lastVal = want
    /\ inRules = Range(want)

KsCalls == {"EnableFirewall", "DisableFirewall"}

\* C4: when the EnableFirewall or DisableFirewall call of a Set fails, the
\* killswitch flag keeps the value it had before the call, and Set still
\* returns nil.
KillswitchFailureKeepsFlag ==
  (last.op = "Set" /\ last.failed \cap KsCalls # {}) =>
    /\ wgFirewallEnabled = last.wgPrev
    /\ last.ret = "nil"

\* C5: a Set that reaches the killswitch step calls EnableFirewall exactly
\* when its routes hold a default route and the flag is off, DisableFirewall
\* exactly when they hold none and the flag is on; and a Set whose
\* default-route presence is that of the previous Set that reached the step
\* makes neither call and leaves the flag alone.
KillswitchIdempotence ==
  /\ [](last.op = "Set" /\ last.ret = "nil" =>
          /\ "EnableFirewall" \in last.calls
               <=> (prevDefault = "yes" /\ ~last.wgPrev)
          /\ "DisableFirewall" \in last.calls
               <=> (prevDefault = "no" /\ last.wgPrev))
  /\ [][(last'.op = "Set" /\ last'.ret = "nil" /\ prevDefault' = prevDefault)
          => /\ last'.calls \cap KsCalls = {}
             /\ wgFirewallEnabled' = wgFirewallEnabled]_vars

\* C5 witness: a second Set with a default route found the flag on and made
\* no killswitch call.
KillswitchIdempotenceWitness ==
  /\ last.op = "Set"
  /\ last.ret = "nil"
  /\ prevDefault = "yes"
  /\ last.wgPrev
  /\ last.calls \cap KsCalls = {}

\* C6: once didProcRule is true it stays true, and the goroutine is never
\* again at the delete or the add command of the Tailscale-Process rule.
ProcRuleOnce ==
  /\ [](didProcRule =>
          \A l \in LoopIds : pc[l] \notin {"procDel", "procAdd", "procSet"})
  /\ [][didProcRule => didProcRule']_vars

\* C6 witness: with the rule installed, a later iteration for a different
\* list is at its add commands without having touched the rule.
ProcRuleOnceWitness ==
  /\ didProcRule
  /\ known
  /\ \E l \in LoopIds :
       pc[l] = "add" /\ ~needProcRule[l] /\ val[l] # lastVal

\* C7: the goroutine clears running only when known is true and lastVal is
\* the current want, so after the first call a cleared running means just
\* that; and an iteration whose add failed never ends the goroutine.
ExitOnlyConverged ==
  /\ []((Called /\ ~running) => (known /\ lastVal = want))
  /\ [][(running /\ ~running')
          => (known /\ lastVal = want /\ UNCHANGED <<known, lastVal, want>>)]_vars
  /\ [][(\E l \in LoopIds : err[l]) => running']_vars

\* C7 witness: back at the exit test after a failed add, with lastVal equal
\* to want but the state not known.
ExitOnlyConvergedWitness ==
  \E l \in LoopIds :
    pc[l] = "check" /\ err[l] /\ ~known /\ lastVal = want /\ Len(want) = 2

\* C8: while the goroutine is inside runFirewall or BackOff it does not hold
\* ft.mu, and nobody else does, so a set call can take the lock at once.
LockFreeWhileSlow ==
  \A l \in LoopIds : Slow(l) => (mu # l /\ mu = 0 /\ ENABLED clear)

\* C8 witness: a Set call recorded a new want while the goroutine slept in
\* BackOff.
LockFreeWhileSlowWitness ==
  /\ last.op = "Set"
  /\ \E l \in LoopIds : pc[l] = "backoff" /\ val[l] # want

\* C9: a Set whose configureInterface fails returns the error without
\* calling dns.Set or the killswitch collaborator, the flag unchanged; one
\* whose dns.Set fails returns an error without a killswitch call, the flag
\* unchanged.
SetAborts ==
  last.op = "Set" =>
    /\ "configureInterface" \in last.failed =>
         /\ last.ret = "err"
         /\ last.calls \cap ({"dns.Set"} \cup KsCalls) = {}
         /\ wgFirewallEnabled = last.wgPrev
    /\ "dns.Set" \in last.failed =>
         /\ last.ret = "err"
         /\ last.calls \cap KsCalls = {}
         /\ wgFirewallEnabled = last.wgPrev

\* C9 witness: dns.Set failed in a Set that found the killswitch on.
SetAbortsWitness ==
  /\ last.op = "Set"
  /\ "dns.Set" \in last.failed
  /\ last.wgPrev

\* C10: as long as Close is the latest call the desired list is empty; and
\* when netsh deletes what it is told to, eventually, if Close was the last
\* call, no Tailscale-In rule is left and the goroutine has returned.
CloseDrains ==
  /\ [](last.op = "Close" => want = <<>>)
  /\ <>[](last.op = "Close" =>
            (inRules = {} /\ ~running /\ Active = {}))

\* C10 witness: Close came after a Set, and the goroutine has returned with
\* nothing installed.
CloseDrainsWitness ==
  /\ last.op = "Close"
  /\ prevDefault = "no"
  /\ didProcRule
  /\ ~running
  /\ inRules = {}

\* C11: a set call starts the callback of every registered watcher, once
\* each and with the call's key and error, when the key goes from healthy
\* to unhealthy or back, or gets its first error ever while unknown; it
\* starts none when an unknown key is set healthy or when the nil-vs-non-nil
\* status stays what it was.  No other call starts a callback.
StatusChanged(old, e) ==
  \/ old = "absent" /\ e # "nil"
  \/ old # "absent" /\ (old = "nil") # (e = "nil")

WatchersOnTransition ==
  /\ hlast.op = "set" =>
       hlast.ran = IF StatusChanged(hlast.old, hlast.err)
                     THEN {[h |-> h, key |-> hlast.key, err |-> hlast.err] :
                             h \in watchers}
                     ELSE {}
  /\ hlast.op # "set" => hlast.ran = {}

\* C11 witness: with two watchers registered, a key that held an error was
\* set healthy and both callbacks were started.
WatchersOnTransitionWitness ==
  /\ hlast.op = "set"
  /\ hlast.old = "e1"
  /\ hlast.err = "nil"
  /\ Cardinality(watchers) = 2
  /\ Cardinality(hlast.ran) = 2

\* C12 as stated: once a call has recorded a new want, the goroutine is
\* never inside an add command for a CIDR that is not in want.
NoStaleAdd ==
  \A l \in LoopIds :
    pc[l] = "add" => val[l][idx[l]] \in Range(want)

\* C12 amended: every add command is for a CIDR of the list the iteration
\* snapshotted; and once the goroutine has snapshotted want after the
\* latest call, the list it is applying is want, so that only the
\* iteration that was under way when the call came still adds CIDRs of the
\* earlier list.
NoStaleAddAfterSnapshot ==
  \A l \in LoopIds :
    /\ pc[l] = "add" => idx[l] \in 1..Len(val[l])
    /\ (last.seen /\ pc[l] \notin {"none", "lock", "check"}) => val[l] = want

\* C12 witness: a list has been applied, a call replaced it by another, and
\* the goroutine, having snapshotted the new list, is inside its adds.
NoStaleAddAfterSnapshotWitness ==
  /\ last.seen
  /\ known
  /\ Len(lastVal) > 0
  /\ lastVal # want
  /\ \E l \in LoopIds : pc[l] = "add" /\ idx[l] = 2

\* The goroutine is not in the middle of an iteration.
AtRest == \A l \in LoopIds : pc[l] \in {"none", "lock", "check"}

\* C13: whenever known is true and no iteration is under way, the installed
\* Tailscale-In rules are exactly the CIDRs of lastVal, whatever commands
\* succeeded or failed; and known is false before the first attempt and
\* after an iteration whose add failed.
KnownReflectsOS ==
  /\ (known /\ AtRest) => inRules = Range(lastVal)
  /\ last.op = "none" => ~known
  /\ \A l \in LoopIds : (pc[l] = "check" /\ err[l]) => ~known

\* C14: an iteration that does not exit starts with the delete of the
\* Tailscale-In rules exactly when known is false, or lastVal is not empty,
\* or the snapshotted list is empty; the delete comes before any add of the
\* iteration; and whether it succeeds or fails, err, known and the list to
\* add are what they were and the iteration goes on.
ClearIffNeeded ==
  /\ [](\A l \in LoopIds :
          /\ pc[l] = "clear" => (needClear[l] /\ idx[l] = 1 /\ ~err[l])
          /\ pc[l] \in {"procDel", "procAdd", "procSet", "add", "backoff", "relock"}
               => (needClear[l] <=>
                     (~known \/ Len(lastVal) > 0 \/ Len(val[l]) = 0)))
  /\ [][\A l \in LoopIds :
          /\ (pc[l] = "check" /\ pc'[l] \notin {"check", "none"}) =>
               (pc'[l] = "clear" <=>
                  (~known \/ Len(lastVal) > 0 \/ Len(want) = 0))
          /\ (pc[l] = "clear" /\ pc'[l] # "clear") =>
               /\ pc'[l] = ProcPc(needProcRule[l], val[l])
               /\ UNCHANGED <<err, known, lastVal, val, idx>>]_vars

\* C14 witness: the delete failed, its rules are still installed, and the
\* goroutine is at the first add of the same iteration with err unset.
ClearIffNeededWitness ==
  \E l \in LoopIds :
    /\ pc[l] = "add"
    /\ idx[l] = 1
    /\ needClear[l]
    /\ ~needProcRule[l]
    /\ ~err[l]
    /\ inRules # {}

\* C15: the adds of an iteration go through val in order, one CIDR per
\* command, and none is issued after one has failed; the iteration ends
\* with err set exactly when it stopped short of the end of val; it then
\* records lastVal = val and known = ~err; and after a failed add the next
\* iteration starts with the delete and adds val from its first CIDR.
AddsInOrder ==
  /\ [](\A l \in LoopIds :
          /\ pc[l] = "add" => (idx[l] \in 1..Len(val[l]) /\ ~err[l])
          /\ pc[l] \in {"backoff", "relock"} =>
               /\ err[l] <=> idx[l] <= Len(val[l])
               /\ ~err[l] => idx[l] = Len(val[l]) + 1
          /\ (pc[l] = "check" /\ err[l]) => ~known)
  /\ [][\A l \in LoopIds :
          /\ (pc[l] = "add" /\ <<pc[l], idx[l]>> # <<pc'[l], idx'[l]>>) =>
               \/ /\ ~err'[l]
                  /\ idx'[l] = idx[l] + 1
                  /\ inRules' = inRules \cup {val[l][idx[l]]}
                  /\ pc'[l] = IF idx[l] < Len(val[l]) THEN "add" ELSE "backoff"
               \/ /\ err'[l]
                  /\ idx'[l] = idx[l]
                  /\ inRules' = inRules
                  /\ pc'[l] = "backoff"
          /\ (pc[l] = "relock" /\ pc'[l] = "check") =>
               /\ lastVal' = val[l]
               /\ known' <=> idx[l] = Len(val[l]) + 1
          /\ (pc[l] = "check" /\ err[l] /\ pc'[l] # "check") =>
               /\ pc'[l] = "clear"
               /\ idx'[l] = 1
               /\ val'[l] = want]_vars

\* C15 witness: the first of two adds failed; the second CIDR is not
\* installed and the iteration is on its way to record known = false.
AddsInOrderWitness ==
  \E l \in LoopIds :
    /\ pc[l] = "relock"
    /\ err[l]
    /\ idx[l] = 1
    /\ Len(val[l]) = 2
    /\ inRules = {}

\* C16: when the Tailscale-Process rule cannot be installed (os.Executable
\* or the add command fails) the iteration goes on to the adds for val with
\* err unset, and known and didProcRule are what they were; and an
\* iteration skips the Tailscale-Process commands only when didProcRule is
\* true, so every iteration tries again until the install succeeds.
ProcRuleFailureNoBlock ==
  /\ [](\A l \in LoopIds :
          /\ pc[l] \in {"procDel", "procAdd", "procSet"} =>
               (needProcRule[l] /\ ~err[l] /\ idx[l] = 1)
          /\ (pc[l] \in {"add", "backoff", "relock"} /\ ~didProcRule) =>
               needProcRule[l])
  /\ [][\A l \in LoopIds :
          /\ (pc[l] \in {"procDel", "procAdd"}
                /\ pc'[l] \notin {"procDel", "procAdd", "procSet"}) =>
               /\ pc'[l] = AddPc(val[l], 1)
               /\ ~err'[l]
               /\ UNCHANGED <<known, lastVal, didProcRule, val, idx>>
          /\ (pc[l] \in {"check", "clear"} /\ pc'[l] \in {"add", "backoff"}) =>
               didProcRule]_vars

\* C16 witness: the goroutine has applied a two-CIDR list and returned,
\* and the Tailscale-Process rule has still not been installed.
ProcRuleFailureNoBlockWitness ==
  /\ Called
  /\ ~running
  /\ known
  /\ ~didProcRule
  /\ Len(lastVal) = 2
  /\ inRules = Range(lastVal)

\* C17: a Close whose dns.Down fails returns an error without calling
\* Unregister and leaves the subscription as it was, the desired list
\* having been emptied all the same; a Close whose dns.Down succeeds calls
\* Unregister exactly when there is a subscription.
CloseAbortsOnDns ==
  /\ [](last.op = "Close" =>
          /\ want = <<>>
          /\ "ft.set" \in last.calls
          /\ "dns.Down" \in last.failed =>
               (last.ret = "err" /\ "Unregister" \notin last.calls)
          /\ last.failed = {} =>
               /\ last.ret = "nil"
               /\ routeChangeCallback # "registered"
               /\ "Unregister" \in last.calls
                    <=> routeChangeCallback = "unregistered")
  /\ [][(last'.op = "Close" /\ "dns.Down" \in last'.failed) =>
          routeChangeCallback' = routeChangeCallback]_vars

\* C17 witness: dns.Down failed in a Close that had a subscription to
\* unregister; the subscription is still registered.
CloseAbortsOnDnsWitness ==
  /\ last.op = "Close"
  /\ "dns.Down" \in last.failed
  /\ routeChangeCallback = "registered"
  /\ want = <<>>

\* C18: Close and Up make no EnableFirewall or DisableFirewall call and
\* leave wgFirewallEnabled as they found it; the flag goes from true to
\* false only in a Set whose routes hold no default route, which calls
\* DisableFirewall.
CloseKeepsKillswitch ==
  /\ [](last.op \in {"Close", "Up"} =>
          /\ last.calls \cap KsCalls = {}
          /\ wgFirewallEnabled = last.wgPrev)
  /\ [][(wgFirewallEnabled /\ ~wgFirewallEnabled') =>
          /\ last'.op = "Set"
          /\ prevDefault' = "no"
          /\ "DisableFirewall" \in last'.calls]_vars

\* C18 witness: a Set with a default route turned the killswitch on, and
\* it is still on after a Close that ran to its end.
CloseKeepsKillswitchWitness ==
  /\ last.op = "Close"
  /\ last.ret = "nil"
  /\ prevDefault = "yes"
  /\ wgFirewallEnabled

\* C19: whether or not monitorDefaultRoutes fails, Up has emptied the
\* desired list and, until the goroutine has snapshotted it, a goroutine is
\* running (unless it returned at once, the empty list being applied
\* already); an iteration that snapshots it issues the delete and adds
\* nothing; Up returns an error exactly when the subscription failed; and
\* when netsh deletes what it is told to, eventually, if Up was the last
\* call, no Tailscale-In rule is left and the goroutine has returned.
UpClearsFirst ==
  /\ [](last.op = "Up" =>
          /\ want = <<>>
          /\ "ft.set" \in last.calls
          /\ last.ret = "err" <=> "monitorDefaultRoutes" \in last.failed
          /\ ~last.seen => (running \/ (known /\ lastVal = <<>>))
          /\ \A l \in LoopIds :
               (last.seen /\ pc[l] \notin {"none", "lock", "check"}) =>
                 (needClear[l] /\ val[l] = <<>>))
  /\ <>[](last.op = "Up" => (inRules = {} /\ ~running /\ Active = {}))

\* C19 witness: the subscription failed, Up returned the error, and the
\* goroutine is at the delete command with stale rules still installed.
UpClearsFirstWitness ==
  /\ last.op = "Up"
  /\ last.ret = "err"
  /\ routeChangeCallback = "nil"
  /\ inRules # {}
  /\ \E l \in LoopIds : pc[l] = "clear" /\ val[l] = <<>>

\* C20: right after set(key, err), get(key) is err; the entry of a key
\* changes in no call but a set for that key, so get(key) stays the error
\* of the latest set for it, and nil for a key never set; get returns
\* that value; and a set that replaces an error by another error stores the
\* new one and starts no callback.
GetReturnsLastSet ==
  /\ [](/\ hlast.op = "set" => get(hlast.key) = hlast.err
        /\ hlast.op = "get" => hlast.ret = get(hlast.key)
        /\ \A k \in Keys : m[k] = "absent" => get(k) = "nil"
        /\ (hlast.op = "set" /\ hlast.old \notin {"absent", "nil"}
              /\ hlast.err # "nil") =>
             (hlast.ran = {} /\ m[hlast.key] = hlast.err))
  /\ [][\A k \in Keys :
          m'[k] # m[k] =>
            (hlast'.op = "set" /\ hlast'.key = k /\ m'[k] = hlast'.err)]_vars

\* C20 witness: with a watcher registered, a key that held e1 was set to
\* e2; the map holds e2 and no callback was started.
GetReturnsLastSetWitness ==
  /\ hlast.op = "set"
  /\ hlast.old = "e1"
  /\ hlast.err = "e2"
  /\ get(hlast.key) = "e2"
  /\ watchers # {}
  /\ hlast.ran = {}

====
